---- MODULE Spec2Model ----
(***************************************************************************)
(* A model of haloissues.HaloIssues (src/haloissues/haloissues.py): the    *)
(* issue pipeline of describe_all_issues (listing, time labelling, window  *)
(* filter, de-duplication, thread-pool enrichment) and the finding         *)
(* resolver describe_finding.                                              *)
(*                                                                         *)
(* Python str values are sequences of characters.  Timestamps are          *)
(* sequences of digits (naturals), URLs are sequences of one-character     *)
(* strings, so that the comparisons, the sort and the regular expressions  *)
(* of the code are computed rather than assumed.                           *)
(***************************************************************************)
EXTENDS Integers, Sequences, FiniteSets, TLC

VARIABLES
    \* ---- one call of describe_all_issues(timestamp) ----
    timestamp,                \* the cutoff passed by the caller
    updated,                  \* what issues.list_all(status="active", ...) answers
    resolved,                 \* what issues.list_all(status="resolved", ...) answers
    describe_issues_threads,  \* self.describe_issues_threads
    pc,                       \* "start", "map", "returned", "raised"
    all_issue_ids,            \* the set built at lines 53-55
    tasks,                    \* list(all_issue_ids), the iterable given to pool.map
    next_chunk,               \* index of the next task batch a worker will take
    running,                  \* batches being worked on: chunk index -> item position
    chunks_done,              \* batches finished (with a result or with an exception)
    results,                  \* task index -> record returned by get_issue_full
    map_exc,                  \* the exception pool.map will re-raise, or "none"
    fetch_count,              \* id -> number of issues.describe(id) calls issued
    retval,                   \* the list returned by describe_all_issues
    err,                      \* the exception describe_all_issues propagated, or "none"
    describe_answers,         \* id -> what issues.describe(id) may do
    \* ---- one call of a single method, for the method-level properties ----
    call

mainvars == <<timestamp, updated, resolved, describe_issues_threads, pc,
              all_issue_ids, tasks, next_chunk, running, chunks_done, results,
              map_exc, fetch_count, retval, err, describe_answers>>
vars == <<mainvars, call>>

(***************************************************************************)
(* Python values                                                           *)
(***************************************************************************)
\* None in a timestamp field: a value that is no string.
NULL == <<-1>>

\* Outcome of a call: a returned value or a raised exception.
Return(v) == [ok |-> TRUE, val |-> v, exc |-> "none"]
Raise(e) == [ok |-> FALSE, val |-> <<>>, exc |-> e]

\* a < b on Python str: lexicographic on the characters, a proper prefix is smaller.
RECURSIVE StrLess(_, _)
StrLess(a, b) ==
    IF a = <<>> THEN b # <<>>
    ELSE IF b = <<>> THEN FALSE
    ELSE IF a[1] = b[1] THEN StrLess(Tail(a), Tail(b))
    ELSE a[1] < b[1]

\* sorted(list of str): ascending.
RECURSIVE InsertSorted(_, _)
InsertSorted(x, s) ==
    IF s = <<>> THEN <<x>>
    ELSE IF StrLess(x, s[1]) THEN <<x>> \o s
    ELSE <<s[1]>> \o InsertSorted(x, Tail(s))

RECURSIVE sorted(_)
sorted(s) == IF s = <<>> THEN <<>> ELSE InsertSorted(s[1], sorted(Tail(s)))

(***************************************************************************)
(* time_label_issue, targeted_date, deduplicate_issues                     *)
(***************************************************************************)
target_fields == <<"created_at", "resolved_at", "last_seen_at">>

\* [issue[x] for x in target_fields if issue[x] is not None]
RECURSIVE NonNullFields(_, _)
NonNullFields(issue, fields) ==
    IF fields = <<>> THEN <<>>
    ELSE (IF issue[fields[1]] # NULL THEN <<issue[fields[1]]>> ELSE <<>>)
         \o NonNullFields(issue, Tail(fields))

\* A variant with a fallback: an issue without any timestamp is labelled "".
time_label_issue_fallback(issue) ==
    LET tstamps == NonNullFields(issue, target_fields)
        newest == IF tstamps = <<>> THEN <<>> ELSE sorted(tstamps)[Len(tstamps)]
    IN  Return([k \in DOMAIN issue \cup {"tstamp"} |->
                   IF k = "tstamp" THEN newest ELSE issue[k]])

\* A variant that takes the first of the sorted timestamps.
time_label_issue_oldest(issue) ==
    LET tstamps == NonNullFields(issue, target_fields)
    IN  IF tstamps = <<>> THEN Raise("IndexError")
        ELSE Return([k \in DOMAIN issue \cup {"tstamp"} |->
                        IF k = "tstamp" THEN sorted(tstamps)[1] ELSE issue[k]])

\* sorted(tstamps)[-1] raises IndexError on the empty list.
time_label_issue(issue) ==
    LET tstamps == NonNullFields(issue, target_fields)
    IN  IF tstamps = <<>> THEN Raise("IndexError")
        ELSE Return([k \in DOMAIN issue \cup {"tstamp"} |->
                        IF k = "tstamp" THEN sorted(tstamps)[Len(tstamps)]
                        ELSE issue[k]])

\* A variant that keeps the records at the cutoff too.
targeted_date_inclusive(sample, target) == ~StrLess(sample, target)

\* sample > target
targeted_date(sample, target) == StrLess(target, sample)

\* A loop that never records the ids it has seen.
RECURSIVE DedupeLoopForgetful(_, _, _)
DedupeLoopForgetful(issues, seen, issues_final) ==
    IF issues = <<>> THEN issues_final
    ELSE IF Head(issues).id \in seen
         THEN DedupeLoopForgetful(Tail(issues), seen, issues_final)
         ELSE DedupeLoopForgetful(Tail(issues), seen, Append(issues_final, Head(issues)))

\* The for loop of deduplicate_issues: seen is all_issue_ids.
RECURSIVE DedupeLoop(_, _, _)
DedupeLoop(issues, seen, issues_final) ==
    IF issues = <<>> THEN issues_final
    ELSE IF Head(issues).id \in seen
         THEN DedupeLoop(Tail(issues), seen, issues_final)
         ELSE DedupeLoop(Tail(issues), seen \cup {Head(issues).id},
                         Append(issues_final, Head(issues)))

deduplicate_issues(issues) == DedupeLoop(issues, {}, <<>>)

(***************************************************************************)
(* get_issues_touched_since                                                *)
(* The two list_all answers are the arguments: critical_only only changes  *)
(* the query sent to the source, never what is done with the answers.      *)
(***************************************************************************)
\* [self.time_label_issue(x) for x in all_issues]: the first failure propagates.
LabelAll(issues) ==
    LET bad == {i \in 1..Len(issues) : ~time_label_issue(issues[i]).ok}
    IN  IF bad # {}
        THEN Raise(time_label_issue(issues[CHOOSE i \in bad : \A j \in bad : i <= j]).exc)
        ELSE Return([i \in 1..Len(issues) |-> time_label_issue(issues[i]).val])

\* [x for x in labeled if self.targeted_date(x["tstamp"], timestamp)]
WindowKept(labeled, cutoff) ==
    SelectSeq(labeled, LAMBDA x : targeted_date(x.tstamp, cutoff))

\* [x for x in labeled if not self.targeted_date(x["tstamp"], timestamp)]
WindowDiscarded(labeled, cutoff) ==
    SelectSeq(labeled, LAMBDA x : ~targeted_date(x.tstamp, cutoff))

\* The log lines of the window filter: one info line when something is
\* discarded, then one debug line per discarded record (id, tstamp).
WindowLog(labeled, cutoff) ==
    LET issues_filtered == WindowKept(labeled, cutoff)
        discarded_issues == WindowDiscarded(labeled, cutoff)
        bad == Len(labeled) - Len(issues_filtered)
    IN  (IF bad # 0 THEN <<[level |-> "info", count |-> bad]>> ELSE <<>>)
        \o [i \in 1..Len(discarded_issues) |->
               [level |-> "debug", id |-> discarded_issues[i].id,
                tstamp |-> discarded_issues[i].tstamp]]

\* A variant that de-duplicates before it filters.
get_issues_touched_since_dedupe_first(upd, res, cutoff) ==
    LET lab == LabelAll(res \o upd)
    IN  IF ~lab.ok THEN Raise(lab.exc)
        ELSE Return(WindowKept(deduplicate_issues(lab.val), cutoff))

\* A variant that returns the filtered list as it is.
get_issues_touched_since_no_dedupe(upd, res, cutoff) ==
    LET lab == LabelAll(res \o upd)
    IN  IF ~lab.ok THEN Raise(lab.exc)
        ELSE Return(WindowKept(lab.val, cutoff))

get_issues_touched_since(upd, res, cutoff) ==
    LET all_issues == res \o upd
        lab == LabelAll(all_issues)
    IN  IF ~lab.ok THEN Raise(lab.exc)
        ELSE Return(deduplicate_issues(WindowKept(lab.val, cutoff)))

(***************************************************************************)
(* The values the model draws its inputs from                              *)
(***************************************************************************)
Ids == {"a", "b", "c"}

\* Timestamps: "1" < "15" < "2" as strings (a prefix, and a first-character
\* difference).
T1 == <<1>>
T2 == <<1, 5>>
T3 == <<2>>
TS == {T1, T2, T3}
TSN == TS \cup {NULL}

SeqsUpTo(S, n) == UNION {[1..k -> S] : k \in 0..n}

Issue(id, c, r, l) ==
    [id |-> id, created_at |-> c, resolved_at |-> r, last_seen_at |-> l]

\* Main variables while a single method is exercised.
MainParked ==
    /\ timestamp = <<>> /\ updated = <<>> /\ resolved = <<>>
    /\ describe_issues_threads = 0 /\ pc = "parked"
    /\ all_issue_ids = {} /\ tasks = <<>> /\ next_chunk = 0
    /\ running = <<>> /\ chunks_done = {} /\ results = <<>>
    /\ map_exc = "none" /\ fetch_count = <<>> /\ retval = <<>> /\ err = "none"
    /\ describe_answers = <<>>

(***************************************************************************)
(* time_label_issue on one record                                          *)
(***************************************************************************)
LabelInputs ==
    {[id |-> i, status |-> s, created_at |-> c, resolved_at |-> r, last_seen_at |-> l] :
        i \in {"a", "b"}, s \in {"active", "resolved"}, c \in TSN, r \in TSN, l \in TSN}

InitLabel ==
    /\ MainParked
    /\ \E issue \in LabelInputs :
          call = [op |-> "time_label_issue", pc |-> "start", issue |-> issue,
                  out |-> Raise("none")]

TimeLabelIssue ==
    /\ call.op = "time_label_issue" /\ call.pc = "start"
    /\ call' = [call EXCEPT !.pc = "done", !.out = time_label_issue(call.issue)]
    /\ UNCHANGED mainvars

SpecLabel == InitLabel /\ [][TimeLabelIssue]_vars

(***************************************************************************)
(* deduplicate_issues on one list, then on its own output                  *)
(***************************************************************************)
MaxDedupeLen == 4

DedupePool == {[id |-> i, tstamp |-> t] : i \in Ids, t \in {T1, T3}}

InitDedupe ==
    /\ MainParked
    /\ \E issues \in SeqsUpTo(DedupePool, MaxDedupeLen) :
          call = [op |-> "deduplicate_issues", pc |-> "start", issues |-> issues,
                  out |-> <<>>, out2 |-> <<>>]

DeduplicateIssues ==
    /\ call.op = "deduplicate_issues" /\ call.pc = "start"
    /\ call' = [call EXCEPT !.pc = "once", !.out = deduplicate_issues(call.issues)]
    /\ UNCHANGED mainvars

DeduplicateAgain ==
    /\ call.op = "deduplicate_issues" /\ call.pc = "once"
    /\ call' = [call EXCEPT !.pc = "twice", !.out2 = deduplicate_issues(call.out)]
    /\ UNCHANGED mainvars

SpecDedupe == InitDedupe /\ [][DeduplicateIssues \/ DeduplicateAgain]_vars

(***************************************************************************)
(* get_issues_touched_since on two listing answers, its locals kept        *)
(***************************************************************************)
MaxListed == 3

\* Records whose newest timestamp sits in each of the three fields, below,
\* at and above every cutoff, and one record without any timestamp.
ListedShapes ==
    {<<T1, NULL, NULL>>, <<T1, T2, NULL>>, <<T1, NULL, T3>>, <<NULL, T3, T2>>,
     <<NULL, NULL, NULL>>}

ListedPool ==
    {Issue(i, s[1], s[2], s[3]) : i \in {"a", "b"}, s \in ListedShapes}

InitTouched ==
    /\ MainParked
    /\ \E all \in SeqsUpTo(ListedPool, MaxListed), k \in 0..MaxListed, cutoff \in TS :
          /\ k <= Len(all)
          /\ call = [op |-> "get_issues_touched_since", pc |-> "start",
                     resolved |-> SubSeq(all, 1, k),
                     updated |-> SubSeq(all, k + 1, Len(all)),
                     timestamp |-> cutoff,
                     labeled |-> <<>>, issues_filtered |-> <<>>,
                     discarded_issues |-> <<>>, log |-> <<>>,
                     out |-> Raise("none")]

GetIssuesTouchedSince ==
    /\ call.op = "get_issues_touched_since" /\ call.pc = "start"
    /\ LET lab == LabelAll(call.resolved \o call.updated)
           out == get_issues_touched_since(call.updated, call.resolved, call.timestamp)
       IN  IF ~lab.ok
           THEN call' = [call EXCEPT !.pc = "raised", !.out = out]
           ELSE call' = [call EXCEPT
                    !.pc = "returned",
                    !.labeled = lab.val,
                    !.issues_filtered = WindowKept(lab.val, call.timestamp),
                    !.discarded_issues = WindowDiscarded(lab.val, call.timestamp),
                    !.log = WindowLog(lab.val, call.timestamp),
                    !.out = out]
    /\ UNCHANGED mainvars

SpecTouched == InitTouched /\ [][GetIssuesTouchedSince]_vars

(***************************************************************************)
(* describe_all_issues: the listing, then pool.map over the id set         *)
(***************************************************************************)
DefaultThreads == 5
MaxThreads == 2
MaxRecords == 2

\* The configured concurrency: describe_threads when given, else the default.
ThreadChoices == (1..MaxThreads) \cup {DefaultThreads}

Cutoffs == {T1, T2}

\* What the source lists and describes: a record last touched at T1, one
\* last touched at T3, and one without any timestamp.
SourceShapes == {<<T1, NULL, NULL>>, <<T1, NULL, T3>>, <<NULL, NULL, NULL>>}
SourcePool == {Issue(i, s[1], s[2], s[3]) : i \in Ids, s \in SourceShapes}

\* issues.describe(id): the record of that id, in any state, or an exception.
AnyAnswer ==
    [i \in Ids \cup {"d"} |->
        {Return(r) : r \in {x \in SourcePool : x.id = i}} \cup {Raise("CloudPassageError")}]

\* A source that describes every issue, as touched at T3.
ReliableAnswer == [i \in Ids \cup {"d"} |-> {Return(Issue(i, T1, NULL, T3))}]

\* list(all_issue_ids): the ids of a set, each once, in some order.
Orderings(S) ==
    UNION {{f \in [1..n -> S] : \A i, j \in 1..n : i # j => f[i] # f[j]} :
              n \in {Cardinality(S)}}

\* A variant that enriches every listed record in the window.
EnrichmentTasksPerRecord(upd, res, cutoff) ==
    {[i \in 1..Len(kept) |-> kept[i].id] :
        kept \in {get_issues_touched_since_no_dedupe(upd, res, cutoff).val}}

\* Lines 53-61: the lists pool.map may be given, list({x["id"] for x in ...}).
EnrichmentTasks(upd, res, cutoff) ==
    UNION {Orderings({issues[i].id : i \in 1..Len(issues)}) :
              issues \in {get_issues_touched_since(upd, res, cutoff).val}}

\* Pool._map_async: chunksize, extra = divmod(len(iterable), len(pool) * 4).
ChunkSizeFor(n, threads) ==
    IF n = 0 THEN 0
    ELSE (n \div (threads * 4)) + (IF n % (threads * 4) # 0 THEN 1 ELSE 0)

ChunkSize == ChunkSizeFor(Len(tasks), describe_issues_threads)
NumChunks == IF ChunkSize = 0 THEN 0 ELSE (Len(tasks) + ChunkSize - 1) \div ChunkSize
ChunkLen(c) ==
    IF c * ChunkSize <= Len(tasks) THEN ChunkSize ELSE Len(tasks) - (c - 1) * ChunkSize
TaskIndex(c, pos) == (c - 1) * ChunkSize + pos

\* A worker that does not look at the pool size.
WorkerFreeUnbounded == TRUE

\* ThreadPool(self.describe_issues_threads): a batch starts only on a free worker.
WorkerFree == Cardinality(DOMAIN running) < describe_issues_threads

Drop(f, c) == [x \in DOMAIN f \ {c} |-> f[x]]

\* The fetches in flight: one per batch being worked on.
InFlight == DOMAIN running

Ended == pc \in {"returned", "raised"}

\* The listings of the general case: up to MaxRecords records in all.
GeneralListings ==
    UNION {{[resolved |-> SubSeq(all, 1, k), updated |-> SubSeq(all, k + 1, Len(all))] :
               k \in 0..Len(all)} : all \in SeqsUpTo(SourcePool, MaxRecords)}

\* The end-to-end example: 3 updated and 2 resolved records, one id in both
\* lists, one record at T1 and the others at T3.
ExampleListings ==
    LET fresh(i) == Issue(i, T1, NULL, T3)
        stale(i) == Issue(i, T1, NULL, NULL)
        five(o, flip) == IF flip THEN <<"d", o, "a", "b", "c">> ELSE <<o, "d", "a", "b", "c">>
    IN  {[resolved |-> [i \in 1..2 |->
                          IF i = st THEN stale(five(o, flip)[i]) ELSE fresh(five(o, flip)[i])],
          updated |-> [i \in 1..3 |->
                          IF i + 2 = st THEN stale(five(o, flip)[i + 2])
                          ELSE fresh(five(o, flip)[i + 2])]] :
            o \in Ids, flip \in BOOLEAN, st \in 1..5}

\* Up to three active issues, all touched after the cutoff.
ActiveListings ==
    {[resolved |-> <<>>,
      updated |-> SubSeq(<<Issue("a", T1, NULL, T3), Issue("b", T1, NULL, T3),
                           Issue("c", T1, NULL, T3)>>, 1, n)] : n \in 0..3}

CallParked == call = [op |-> "none"]

\* After construction: the concurrency is configured, no call has been made.
Init ==
    /\ CallParked
    /\ describe_issues_threads \in ThreadChoices
    /\ pc = "idle"
    /\ timestamp = <<>> /\ updated = <<>> /\ resolved = <<>>
    /\ describe_answers = <<>>
    /\ all_issue_ids = {} /\ tasks = <<>> /\ next_chunk = 0
    /\ running = <<>> /\ chunks_done = {} /\ results = <<>>
    /\ map_exc = "none"
    /\ fetch_count = [i \in Ids \cup {"d"} |-> 0]
    /\ retval = <<>> /\ err = "none"

\* describe_all_issues(timestamp) is called; the source is in some state:
\* what it lists as active and as resolved, and how it describes an issue.
InvokeWith(listings, answers, cutoffs) ==
    /\ pc = "idle"
    /\ \E l \in listings : updated' = l.updated /\ resolved' = l.resolved
    /\ describe_answers' = answers
    /\ timestamp' \in cutoffs
    /\ pc' = "start"
    /\ UNCHANGED <<describe_issues_threads, all_issue_ids, tasks, next_chunk, running,
                   chunks_done, results, map_exc, fetch_count, retval, err, call>>

\* Any short listing, on a source that describes every issue.
InvokeGeneral == InvokeWith(GeneralListings, ReliableAnswer, Cutoffs)
\* Active issues in the window, on a source that may describe an issue in
\* any state, or fail.
InvokeActive == InvokeWith(ActiveListings, AnyAnswer, {T2})
\* The end-to-end example.
InvokeExample == InvokeWith(ExampleListings, ReliableAnswer, {T2})

env == <<timestamp, updated, resolved, describe_issues_threads, describe_answers>>

\* Lines 53-61: get_issues_touched_since, the id set, and the hand-over of
\* list(all_issue_ids) to pool.map.  A labelling failure propagates.
Dispatch ==
    /\ pc = "start"
    /\ \E r \in {get_issues_touched_since(updated, resolved, timestamp)} :
           IF ~r.ok
           THEN /\ pc' = "raised" /\ err' = r.exc
                /\ UNCHANGED <<all_issue_ids, tasks, next_chunk>>
           ELSE /\ \E t \in EnrichmentTasks(updated, resolved, timestamp) :
                      /\ tasks' = t
                      /\ all_issue_ids' = {t[i] : i \in 1..Len(t)}
                /\ next_chunk' = 1
                /\ pc' = "map" /\ err' = err
    /\ UNCHANGED <<env, running, chunks_done, results, map_exc, fetch_count, retval, call>>

\* A free worker takes the next batch and calls get_issue_full on its first id.
WorkerTake ==
    /\ pc = "map"
    /\ next_chunk >= 1 /\ next_chunk <= NumChunks
    /\ WorkerFree
    /\ running' = running @@ (next_chunk :> 1)
    /\ fetch_count' = [fetch_count EXCEPT ![tasks[TaskIndex(next_chunk, 1)]] = @ + 1]
    /\ next_chunk' = next_chunk + 1
    /\ UNCHANGED <<env, pc, all_issue_ids, tasks, chunks_done, results, map_exc,
                   retval, err, call>>

\* issues.describe(id) returns: the worker goes on to the next id of its
\* batch, or hands the batch in.
FetchReturn ==
    /\ pc = "map"
    /\ \E c \in DOMAIN running :
          LET idx == TaskIndex(c, running[c])
          IN  \E a \in {x \in describe_answers[tasks[idx]] : x.ok} :
                 /\ results' = results @@ (idx :> a.val)
                 /\ IF running[c] < ChunkLen(c)
                    THEN /\ running' = [running EXCEPT ![c] = @ + 1]
                         /\ fetch_count' = [fetch_count EXCEPT ![tasks[idx + 1]] = @ + 1]
                         /\ UNCHANGED chunks_done
                    ELSE /\ running' = Drop(running, c)
                         /\ chunks_done' = chunks_done \cup {c}
                         /\ UNCHANGED fetch_count
    /\ UNCHANGED <<env, pc, all_issue_ids, tasks, next_chunk, map_exc, retval, err, call>>

\* issues.describe(id) raises: the batch ends there, and pool.map keeps the
\* first exception.
FetchRaise ==
    /\ pc = "map"
    /\ \E c \in DOMAIN running :
          \E a \in {x \in describe_answers[tasks[TaskIndex(c, running[c])]] : ~x.ok} :
             /\ running' = Drop(running, c)
             /\ chunks_done' = chunks_done \cup {c}
             /\ map_exc' = IF map_exc = "none" THEN a.exc ELSE map_exc
    /\ UNCHANGED <<env, pc, all_issue_ids, tasks, next_chunk, results, fetch_count,
                   retval, err, call>>

\* The list pool.map returns: the results in task order, from task i on.
RECURSIVE ResultList(_)
ResultList(i) ==
    IF i > Len(tasks) THEN <<>>
    ELSE (IF i \in DOMAIN results THEN <<results[i]>> ELSE <<>>) \o ResultList(i + 1)

\* A variant of the hand-back that returns what was fetched, failures skipped.
MapDonePartial == chunks_done = 1..NumChunks

\* A variant of the hand-back that waits only until every batch is taken.
MapDoneAllTaken == next_chunk > NumChunks /\ map_exc = "none"

\* pool.map has every batch back and none failed.
MapDone == chunks_done = 1..NumChunks /\ map_exc = "none"

\* Lines 61-65: pool.map returns the results in task order, the pool is
\* closed and joined, every result is labelled.  A labelling failure propagates.
MapReturn ==
    /\ pc = "map"
    /\ MapDone
    /\ \E lab \in {LabelAll(ResultList(1))} :
           IF lab.ok
           THEN pc' = "returned" /\ retval' = lab.val /\ err' = err
           ELSE pc' = "raised" /\ err' = lab.exc /\ retval' = retval
    /\ UNCHANGED <<env, all_issue_ids, tasks, next_chunk, running, chunks_done, results,
                   map_exc, fetch_count, call>>

\* pool.map re-raises the exception of a failed batch: as soon as it is
\* recorded (Python 2.7, the interpreter setup.py names) or once every batch
\* is back (Python 3).  Line 61 raises; lines 62-65 are not run.
MapRaise ==
    /\ pc = "map"
    /\ map_exc # "none"
    /\ pc' = "raised" /\ err' = map_exc
    /\ UNCHANGED <<env, all_issue_ids, tasks, next_chunk, running, chunks_done, results,
                   map_exc, fetch_count, retval, call>>

Pool == WorkerTake \/ FetchReturn \/ FetchRaise \/ MapReturn \/ MapRaise

Next == InvokeGeneral \/ InvokeActive \/ InvokeExample \/ Dispatch \/ Pool

Spec == Init /\ [][Next]_vars

\* The calls that put the pool to work.
PoolNext == InvokeActive \/ InvokeExample \/ Dispatch \/ Pool

\* Once the batches are queued: a free worker takes the next batch, a fetch
\* in flight comes back (with a record or an exception), and the caller
\* blocked in pool.map goes on as soon as pool.map hands back.
FairSpec ==
    /\ Init /\ [][PoolNext]_vars
    /\ WF_vars(WorkerTake)
    /\ WF_vars(FetchReturn \/ FetchRaise)
    /\ WF_vars(MapReturn \/ MapRaise)

(***************************************************************************)
(* Properties of the single methods                                        *)
(***************************************************************************)
NonNullValues(issue) ==
    {issue[f] : f \in {"created_at", "resolved_at", "last_seen_at"}} \ {NULL}

\* t <= c on strings, stated from the order itself.
StrLeq(t, c) == t = c \/ StrLess(t, c)

\* C5: for a record with at least one non-null field among created_at,
\* resolved_at and last_seen_at, time_label_issue returns a record whose
\* tstamp is the lexicographic maximum of the non-null values, and whose
\* other fields are the input's.
C5_LabelIsLexMax ==
    (call.op = "time_label_issue" /\ call.pc = "done"
        /\ NonNullValues(call.issue) # {})
    => /\ call.out.ok
       /\ call.out.val.tstamp \in NonNullValues(call.issue)
       /\ \A v \in NonNullValues(call.issue) : StrLeq(v, call.out.val.tstamp)
       /\ DOMAIN call.out.val = DOMAIN call.issue \cup {"tstamp"}
       /\ \A k \in DOMAIN call.issue : call.out.val[k] = call.issue[k]

\* The maximum sits in the middle field, above a value it extends as a prefix.
C5_Witness ==
    /\ call.op = "time_label_issue" /\ call.pc = "done"
    /\ call.issue.created_at = T1
    /\ call.issue.resolved_at = T3
    /\ call.issue.last_seen_at = T2
    /\ call.out.ok /\ call.out.val.tstamp = T3

IsFirstOccurrence(x, i) == \A j \in 1..(i - 1) : x[j].id # x[i].id

RECURSIVE FirstOccurrencesFrom(_, _)
FirstOccurrencesFrom(x, i) ==
    IF i > Len(x) THEN <<>>
    ELSE (IF IsFirstOccurrence(x, i) THEN <<x[i]>> ELSE <<>>)
         \o FirstOccurrencesFrom(x, i + 1)

\* C4: deduplicate_issues(x) holds exactly the first occurrence of each id
\* of x, in input order; it is no longer than x, empty for the empty list,
\* and applying it to its own output changes nothing.
C4_DedupeFirstOccurrences ==
    (call.op = "deduplicate_issues" /\ call.pc \in {"once", "twice"})
    => /\ call.out = FirstOccurrencesFrom(call.issues, 1)
       /\ Len(call.out) <= Len(call.issues)
       /\ (call.issues = <<>> => call.out = <<>>)
       /\ \A i, j \in 1..Len(call.out) : i # j => call.out[i].id # call.out[j].id
       /\ (call.pc = "twice" => call.out2 = call.out)

\* A list with a repeated id whose two records differ, another id between them.
C4_Witness ==
    /\ call.op = "deduplicate_issues" /\ call.pc = "twice"
    /\ Len(call.issues) = 4
    /\ call.issues[1].id = call.issues[3].id
    /\ call.issues[1] # call.issues[3]
    /\ call.issues[2].id # call.issues[1].id
    /\ Len(call.out) = 2
    /\ call.out[1] = call.issues[1]

Count(seq, r) == Cardinality({i \in 1..Len(seq) : seq[i] = r})
Range(seq) == {seq[i] : i \in 1..Len(seq)}

\* C3: the window filter of get_issues_touched_since keeps the records with
\* tstamp > cutoff, discards those with tstamp <= cutoff (the cutoff itself
\* included), and every labelled record is in exactly one of the two lists,
\* as often as it was listed.
C3_WindowPartition ==
    (call.op = "get_issues_touched_since" /\ call.pc = "returned")
    => /\ \A i \in 1..Len(call.issues_filtered) :
             StrLess(call.timestamp, call.issues_filtered[i].tstamp)
       /\ \A i \in 1..Len(call.discarded_issues) :
             StrLeq(call.discarded_issues[i].tstamp, call.timestamp)
       /\ \A r \in Range(call.labeled) :
             r.tstamp = call.timestamp => r \in Range(call.discarded_issues)
       /\ \A r \in Range(call.labeled) \cup Range(call.issues_filtered)
                   \cup Range(call.discarded_issues) :
             Count(call.labeled, r)
                = Count(call.issues_filtered, r) + Count(call.discarded_issues, r)
       /\ \A r \in Range(call.labeled) :
             Count(call.issues_filtered, r) = 0 \/ Count(call.discarded_issues, r) = 0

\* One record above the cutoff, one at it and one below it.
C3_Witness ==
    /\ call.op = "get_issues_touched_since" /\ call.pc = "returned"
    /\ call.timestamp = T2
    /\ Len(call.labeled) = 3
    /\ Len(call.issues_filtered) = 1
    /\ \E i, j \in 1..2 :
          /\ call.discarded_issues[i].tstamp = call.timestamp
          /\ StrLess(call.discarded_issues[j].tstamp, call.timestamp)

(***************************************************************************)
(* describe_finding and parse_finding_url                                  *)
(* A URL is the sequence of its characters.                                *)
(***************************************************************************)
Digits == {"0", "1", "2", "3", "4", "5", "6", "7", "8", "9"}
Letters ==
    {"a", "b", "c", "d", "e", "f", "g", "h", "i", "j", "k", "l", "m", "n", "o", "p", "q", "r", "s", "t", "u", "v", "w", "x", "y", "z"}
    \cup {"A", "B", "C", "D", "E", "F", "G", "H", "I", "J", "K", "L", "M", "N", "O", "P", "Q", "R", "S", "T", "U", "V", "W", "X", "Y", "Z"}
AlNum == Letters \cup Digits          \* [A-Za-z0-9]
WordChars == AlNum \cup {"_"}         \* \w

LitHttps == <<"h", "t", "t", "p", "s", ":", "/", "/">>
LitDomainV == <<".", "c", "l", "o", "u", "d", "p", "a", "s", "s", "a", "g", "e", ".", "c", "o", "m", "/", "v">>
LitScans == <<"/", "s", "c", "a", "n", "s", "/">>
LitFindings == <<"/", "f", "i", "n", "d", "i", "n", "g", "s", "/">>
LitEvents == <<"/", "e", "v", "e", "n", "t", "s", "/">>
PathScans == <<"/", "v", "1", "/", "s", "c", "a", "n", "s", "/">>
PathEvents == <<"/", "v", "1", "/", "e", "v", "e", "n", "t", "s", "/">>

\* lit occurs in s at position p.
StartsWithAt(s, p, lit) ==
    /\ p >= 1
    /\ p + Len(lit) - 1 <= Len(s)
    /\ \A k \in 1..Len(lit) : s[p + k - 1] = lit[k]

\* lit in s
Contains(s, lit) == \E p \in 1..Len(s) : StartsWithAt(s, p, lit)

\* The position after the longest run of characters of class that starts at p.
RECURSIVE RunEnd(_, _, _)
RunEnd(s, p, class) ==
    IF p <= Len(s) /\ s[p] \in class THEN RunEnd(s, p + 1, class) ELSE p

\* Matching steps: each takes the position reached so far (0: no match) and
\* gives the position after its piece of the pattern (0: no match).
MatchLit(s, p, lit) == IF p # 0 /\ StartsWithAt(s, p, lit) THEN p + Len(lit) ELSE 0
MatchOne(s, p, class) == IF p # 0 /\ p <= Len(s) /\ s[p] \in class THEN p + 1 ELSE 0
MatchRun(s, p, class) ==
    IF p # 0 /\ p <= Len(s) /\ s[p] \in class THEN RunEnd(s, p, class) ELSE 0
\* $ matches at the end and before a final newline.
MatchEnd(s, p) == p # 0 /\ (p = Len(s) + 1 \/ (p = Len(s) /\ s[p] = "\n"))

\* re.match(r"^https://\w+\.cloudpassage\.com/v\d/scans/[A-Za-z0-9]+/findings/[A-Za-z0-9]+$", url)
\* No class can take a character of the literal that follows it, so the
\* longest run is the only one that can match.
StrictMatch(url) ==
    LET p1 == MatchLit(url, 1, LitHttps)
        p2 == MatchRun(url, p1, WordChars)
        p3 == MatchLit(url, p2, LitDomainV)
        p4 == MatchOne(url, p3, Digits)
        p5 == MatchLit(url, p4, LitScans)
        p6 == MatchRun(url, p5, AlNum)
        p7 == MatchLit(url, p6, LitFindings)
        p8 == MatchRun(url, p7, AlNum)
    IN  MatchEnd(url, p8)

\* re.search(r".*/scans/(?P<scan_id>[A-Za-z0-9]+)/findings/(?P<finding_id>[A-Za-z0-9]+)", url):
\* the greedy .* stops at the last /scans/ after which the rest matches.
ExtractAt(url, q) ==
    LET p5 == MatchLit(url, q, LitScans)
        p6 == MatchRun(url, p5, AlNum)
        p7 == MatchLit(url, p6, LitFindings)
        p8 == MatchRun(url, p7, AlNum)
    IN  [ok |-> p8 # 0,
         scan_id |-> IF p8 # 0 THEN SubSeq(url, p5, p6 - 1) ELSE <<>>,
         finding_id |-> IF p8 # 0 THEN SubSeq(url, p7, p8 - 1) ELSE <<>>]

Extract(url) ==
    LET qs == {q \in 1..Len(url) : ExtractAt(url, q).ok}
    IN  ExtractAt(url, CHOOSE q \in qs : \A r \in qs : r <= q)

\* url.split('/')[-1]: what follows the last slash.
LastSegment(url) ==
    LET slashes == {p \in 1..Len(url) : url[p] = "/"}
        last == IF slashes = {} THEN 0 ELSE CHOOSE p \in slashes : \A r \in slashes : r <= p
    IN  SubSeq(url, last + 1, Len(url))

ErrorLog(msg, url) == [level |-> "error", msg |-> msg, url |-> url]

\* Returns the pair of ids, or None after logging an error.
parse_finding_url(url) ==
    IF ~StrictMatch(url)
    THEN [none |-> TRUE, scan_id |-> <<>>, finding_id |-> <<>>,
          log |-> <<ErrorLog("Unable to parse finding URL", url)>>]
    ELSE [none |-> FALSE, scan_id |-> Extract(url).scan_id,
          finding_id |-> Extract(url).finding_id, log |-> <<>>]

\* http_helper.get(path): the source answers with a record or the call raises.
HttpGet(path, answer) ==
    IF answer = "ok" THEN Return([none |-> FALSE, path |-> path])
    ELSE Raise("CloudPassageError")

None == [none |-> TRUE, path |-> <<>>]

\* "/v1/scans/{}/findings/{}".format(scan_id, finding_id)
get_finding(scan_id, finding_id, answer) ==
    HttpGet(PathScans \o scan_id \o LitFindings \o finding_id, answer)

\* answer: what the source does if it is asked.  The result holds the outcome,
\* the error log lines written and the paths fetched.
describe_finding(finding_url, answer) ==
    IF Contains(finding_url, LitScans)
    THEN LET parsed == parse_finding_url(finding_url)
         IN  IF parsed.none
             \* scan_id, finding_id = None
             THEN [out |-> Raise("TypeError"), log |-> parsed.log, fetched |-> <<>>]
             ELSE [out |-> get_finding(parsed.scan_id, parsed.finding_id, answer),
                   log |-> parsed.log,
                   fetched |-> <<PathScans \o parsed.scan_id \o LitFindings
                                    \o parsed.finding_id>>]
    ELSE IF Contains(finding_url, LitEvents)
    THEN LET event_id == LastSegment(finding_url)
         IN  [out |-> HttpGet(PathEvents \o event_id, answer), log |-> <<>>,
              fetched |-> <<PathEvents \o event_id>>]
    ELSE [out |-> Return(None),
          log |-> <<ErrorLog("Unable to determine finding type", finding_url)>>,
          fetched |-> <<>>]

Schemes == {LitHttps, <<"h", "t", "t", "p", ":", "/", "/">>}
Hosts == {<<"x">>, <<"a", "_", "1">>, <<"a", "-", "b">>}
DomainsV ==
    {LitDomainV, <<".", "c", "l", "o", "u", "d", "p", "a", "s", "s", "a", "g", "e", ".", "c", "o", "m", "/">>,
     <<".", "e", "x", "a", "m", "p", "l", "e", ".", "c", "o", "m", "/", "v">>, <<".", "c", "l", "o", "u", "d", "p", "a", "s", "s", "a", "g", "e", ".", "c", "o", "m", "/", "v", "1">>}
UrlTails ==
    {<<"1", "/", "s", "c", "a", "n", "s", "/", "A", "1", "/", "f", "i", "n", "d", "i", "n", "g", "s", "/", "B", "2">>,
     <<"1", "/", "s", "c", "a", "n", "s", "/", "A", "1">>,
     <<"1", "/", "s", "c", "a", "n", "s", "/", "A", "-", "1", "/", "f", "i", "n", "d", "i", "n", "g", "s", "/", "B", "2">>,
     <<"1", "/", "s", "c", "a", "n", "s", "/", "A", "1", "/", "f", "i", "n", "d", "i", "n", "g", "s", "/", "B", "2", "\n">>,
     <<"1", "/", "s", "c", "a", "n", "s", "/", "A", "1", "/", "f", "i", "n", "d", "i", "n", "g", "s", "/", "B", "2", "/">>,
     <<"1", "/", "e", "v", "e", "n", "t", "s", "/", "Z", "9">>,
     <<"1", "/", "s", "e", "r", "v", "e", "r", "s", "/", "S", "1">>,
     <<"1", "/", "e", "v", "e", "n", "t", "s", "/", "Z", "9", "/", "s", "c", "a", "n", "s", "/", "A", "1", "/", "f", "i", "n", "d", "i", "n", "g", "s", "/", "B", "2">>,
     <<"x", "/", "s", "c", "a", "n", "s", "/", "A", "1", "/", "f", "i", "n", "d", "i", "n", "g", "s", "/", "B", "2">>,
     <<>>}
NotAUrl == <<"n", "o", "t", "-", "a", "-", "u", "r", "l">>
FindingUrls ==
    {s \o h \o d \o t : s \in Schemes, h \in Hosts, d \in DomainsV, t \in UrlTails}
    \cup {NotAUrl}

InitFinding ==
    /\ MainParked
    /\ \E url \in FindingUrls :
          call = [op |-> "describe_finding", pc |-> "start", finding_url |-> url,
                  out |-> Raise("none"), log |-> <<>>, fetched |-> <<>>]

DescribeFinding ==
    /\ call.op = "describe_finding" /\ call.pc = "start"
    /\ \E answer \in {"ok", "error"} :
          LET r == describe_finding(call.finding_url, answer)
          IN  call' = [call EXCEPT !.pc = IF r.out.ok THEN "returned" ELSE "raised",
                                   !.out = r.out, !.log = r.log, !.fetched = r.fetched]
    /\ UNCHANGED mainvars

SpecFinding == InitFinding /\ [][DescribeFinding]_vars

\* A finding reference the resolver cannot resolve: neither kind, or a scan
\* reference that fails the strict pattern.
NeitherKind(url) == ~Contains(url, LitScans) /\ ~Contains(url, LitEvents)
BadScanUrl(url) == Contains(url, LitScans) /\ ~StrictMatch(url)

\* C7: on an unresolvable finding reference (neither /scans/ nor /events/,
\* or /scans/ failing the strict pattern) describe_finding does not raise:
\* it logs an error, fetches nothing and returns None.
C7_UnresolvableReturnsNull ==
    (call.op = "describe_finding" /\ call.pc # "start"
        /\ (NeitherKind(call.finding_url) \/ BadScanUrl(call.finding_url)))
    => /\ call.pc = "returned"
       /\ call.out.ok /\ call.out.val = None
       /\ \E i \in 1..Len(call.log) : call.log[i].level = "error"
       /\ call.fetched = <<>>

\* The half of C7 the code keeps: a reference of neither kind.
NeitherKindReturnsNull ==
    (call.op = "describe_finding" /\ call.pc # "start" /\ NeitherKind(call.finding_url))
    => /\ call.pc = "returned"
       /\ call.out.ok /\ call.out.val = None
       /\ Len(call.log) = 1 /\ call.log[1].level = "error"
       /\ call.fetched = <<>>

\* The documented resolutions: a scan finding and an event.
ResolvesScanAndEvent ==
    (call.op = "describe_finding" /\ call.pc = "returned")
    => /\ (call.finding_url = LitHttps \o <<"x">> \o LitDomainV \o <<"1", "/", "s", "c", "a", "n", "s", "/", "A", "1", "/", "f", "i", "n", "d", "i", "n", "g", "s", "/", "B", "2">>
             => call.fetched = <<<<"/", "v", "1", "/", "s", "c", "a", "n", "s", "/", "A", "1", "/", "f", "i", "n", "d", "i", "n", "g", "s", "/", "B", "2">>>>)
       /\ (call.finding_url = LitHttps \o <<"x">> \o LitDomainV \o <<"1", "/", "e", "v", "e", "n", "t", "s", "/", "Z", "9">>
             => call.fetched = <<<<"/", "v", "1", "/", "e", "v", "e", "n", "t", "s", "/", "Z", "9">>>>)

(***************************************************************************)
(* Properties of describe_all_issues                                       *)
(***************************************************************************)
Listed == resolved \o updated
IdsOf(seq) == {seq[i].id : i \in 1..Len(seq)}
WellFormed(r) == NonNullValues(r) # {}

\* The newest timestamp of a record, from the order itself.
MaxTs(r) == CHOOSE t \in NonNullValues(r) : \A v \in NonNullValues(r) : StrLeq(v, t)

InWindow(r) == WellFormed(r) /\ StrLess(timestamp, MaxTs(r))

\* The ids with at least one listed record newer than the cutoff.
FreshIds == {r.id : r \in {x \in Range(Listed) : InWindow(x)}}

\* C1: the list returned by describe_all_issues holds no two records with
\* the same id (issues.describe answering with the record of the id asked).
C1_NoDuplicateIds ==
    pc = "returned"
    => \A i, j \in 1..Len(retval) : i # j => retval[i].id # retval[j].id

\* An issue listed as active and as resolved, both in the window, among others.
C1_Witness ==
    /\ pc = "returned"
    /\ Len(retval) >= 3
    /\ \E i \in 1..Len(resolved), j \in 1..Len(updated) :
          /\ resolved[i].id = updated[j].id
          /\ InWindow(resolved[i]) /\ InWindow(updated[j])

\* The ids in scope are the ids with a listed record newer than the cutoff,
\* and the returned list has one labelled record for each of them.
C2_General ==
    /\ pc \in {"map", "returned"} => all_issue_ids = FreshIds
    /\ pc = "returned"
       => /\ Len(retval) = Cardinality(FreshIds)
          /\ IdsOf(retval) = FreshIds
          /\ \A i \in 1..Len(retval) :
                /\ "tstamp" \in DOMAIN retval[i]
                /\ retval[i].tstamp = MaxTs(results[i])

\* 3 updated and 2 resolved records, one id in both lists, one stale record.
ExampleShape ==
    /\ Len(updated) = 3 /\ Len(resolved) = 2
    /\ Cardinality(IdsOf(updated)) = 3 /\ Cardinality(IdsOf(resolved)) = 2
    /\ Cardinality(IdsOf(updated) \cap IdsOf(resolved)) = 1
    /\ \A i \in 1..5 : WellFormed(Listed[i])
    /\ Cardinality({i \in 1..5 : ~InWindow(Listed[i])}) = 1

\* The stale record is one of the two records that share an id.
StaleIsShared ==
    \E i \in 1..5 : ~InWindow(Listed[i])
                    /\ Listed[i].id \in IdsOf(updated) \cap IdsOf(resolved)

\* C2 as stated: the general statement, and 3 records for every listing of
\* the example's shape.
C2_AsStated ==
    /\ C2_General
    /\ (pc = "returned" /\ ExampleShape) => Len(retval) = 3

\* C2, amended: the ids surviving get_issues_touched_since are the ids with
\* at least one record in resolved ++ updated with tstamp > cutoff, and the
\* returned list has exactly one record per such id, each with its tstamp;
\* the example's listing yields 3 records when the stale record is not one
\* of the two that share an id, and 4 when it is.
C2_Amended ==
    /\ C2_General
    /\ (pc = "returned" /\ ExampleShape /\ ~StaleIsShared) => Len(retval) = 3
    /\ (pc = "returned" /\ ExampleShape /\ StaleIsShared) => Len(retval) = 4

C2_Witness ==
    /\ pc = "returned" /\ ExampleShape /\ ~StaleIsShared
    /\ Len(retval) = 3
    /\ \A i \in 1..3 : retval[i].tstamp = T3

SafeAllOrNothing ==
    /\ map_exc # "none"
       => /\ pc # "returned" /\ retval = <<>>
          /\ (pc = "raised" => err = map_exc)
    /\ \A i \in DOMAIN fetch_count : fetch_count[i] <= 1

\* C8: once the fetch of one id has failed, describe_all_issues returns no
\* list, it ends with that exception propagated, and no id is fetched twice.
C8_AllOrNothing ==
    /\ []SafeAllOrNothing
    /\ (map_exc # "none") ~> (pc = "raised" /\ err = map_exc /\ retval = <<>>)

\* The call raised the fetch's exception although other ids had been fetched.
C8_Witness ==
    /\ pc = "raised" /\ err = "CloudPassageError"
    /\ Cardinality(DOMAIN results) = 2
    /\ retval = <<>>

SafeJoin ==
    pc = "returned"
    => /\ InFlight = {}
       /\ DOMAIN results = 1..Len(tasks)
       /\ \A i \in 1..Len(tasks) : results[i].id = tasks[i]
       /\ \A i \in DOMAIN fetch_count :
             fetch_count[i] = IF i \in all_issue_ids THEN 1 ELSE 0

AllFetched ==
    /\ pc = "map"
    /\ MapDone
    /\ \A i \in DOMAIN results : WellFormed(results[i])

====
